---- MODULE Spec2Model ----
(***************************************************************************)
(* State-machine model of RAGBuilder (rag_builder.py): the in-memory FAISS *)
(* index with its parallel documents / document_metadata lists, the two    *)
(* on-disk artifacts written by save_index, and the embedding service.     *)
(*                                                                         *)
(* A text is the pair of its two segmentations: sents, the stripped        *)
(* non-blank sentences spaCy yields, and pieces, the stripped non-blank    *)
(* pieces of the regex split.  A sentence is a name with a length          *)
(* (SentLen), Blank being one that strips to nothing; a chunk is the       *)
(* sequence of the sentences joined by single spaces.  A vector is a tuple *)
(* of integers; distances are squared L2.                                  *)
(***************************************************************************)
EXTENDS Integers, Sequences, FiniteSets, TLC

VARIABLES index, documents, document_metadata, disk, last, workers, buttons

vars == <<index, documents, document_metadata, disk, last, workers, buttons>>
\* the state of the frontend: its WorkerThreads and the buttons it enables
ui == <<workers, buttons>>

(*************************** bounds of the model ***************************)
\* WorkerThreads that may be running at once
MaxWorkers == 2
\* sentences of a text handed to split_text
MaxSents == 3
\* add_document is not explored past this many stored chunks or vectors
MaxDocs == 2
\* largest k handed to search
MaxK == 3

(***************************** program constants ***************************)
\* split_text(text, chunk_size=500)
DefaultChunkSize == 500
\* distance faiss reports for a result slot it could not fill (FLT_MAX)
FLT_MAX == 999999
\* label faiss reports for a result slot it could not fill
NotFound == -1
\* validate_with_rag: self.rag_builder.search(query, k=3)
ValidateK == 3

(******************************* the inputs ********************************)
Sentences == {"s1", "s2", "s3", "q1"}
\* a sentence or piece of white space only: sent.text.strip() is empty
Blank == "ws"
\* len() of the stripped sentence
SentLen == [s \in Sentences \cup {Blank} |->
              CASE s = "s1" -> 300 [] s = "s2" -> 250 [] s = "s3" -> 120
                [] s = "q1" -> 40 [] OTHER -> 0]
SentCode == [s \in Sentences |->
              CASE s = "s1" -> 0 [] s = "s2" -> 4 [] s = "s3" -> 1 [] OTHER -> 2]

EmptyText == [sents |-> <<>>, pieces |-> <<>>]
\* the files of the file system: name, extension as written, basename,
\* whether the extractor can read it, and the text it holds
FileTable ==
  [f \in {"dir/a.txt", "dir/b.PDF", "dir/c.md", "dir/d.docx", "dir/e.txt",
           "notes/f.txt"} |->
    CASE f = "dir/a.txt"  -> [ext |-> ".txt",  base |-> "a.txt",  readable |-> TRUE,
                              text |-> [sents |-> <<"s1", "s2">>, pieces |-> <<"s1", "s2">>]]
      [] f = "dir/b.PDF"  -> [ext |-> ".PDF",  base |-> "b.PDF",  readable |-> TRUE,
                              text |-> [sents |-> <<"s3">>, pieces |-> <<"s3">>]]
      [] f = "dir/c.md"   -> [ext |-> ".md",   base |-> "c.md",   readable |-> TRUE,
                              text |-> [sents |-> <<"s3">>, pieces |-> <<"s3">>]]
      [] f = "dir/d.docx" -> [ext |-> ".docx", base |-> "d.docx", readable |-> FALSE,
                              text |-> EmptyText]
      [] f = "notes/f.txt" -> [ext |-> ".txt", base |-> "f.txt", readable |-> TRUE,
                               text |-> [sents |-> <<"q1">>, pieces |-> <<"q1">>]]
      [] OTHER            -> [ext |-> ".txt",  base |-> "e.txt",  readable |-> TRUE,
                              text |-> EmptyText]]
\* the files add_document is called on
Files == {"dir/a.txt", "dir/b.PDF", "dir/c.md", "dir/d.docx", "dir/e.txt"}
\* those and a second one-chunk file, of another folder, for the runs that
\* look at the order of the stored chunks
MoreFiles == DOMAIN FileTable
\* os.walk order of the one folder
FolderFiles == <<"dir/a.txt", "dir/c.md", "dir/d.docx", "dir/b.PDF">>

\* dimensionalities the embedding service may answer with
Dims == {1, 2}
\* what the embedding service does with one request: it fails (HTTP error,
\* timeout, malformed body), or it answers with one vector of dimension d
\* per input
Responses ==
  {[kind |-> "fail", d |-> 0, short |-> FALSE]}
    \cup {[kind |-> "ok", d |-> d, short |-> FALSE] : d \in Dims}
\* an answer that holds one vector fewer than the request had inputs
ShortResponses == {[kind |-> "ok", d |-> d, short |-> TRUE] : d \in Dims}

\* str.lower() on the extensions that occur
Lower(ext) == IF ext = ".PDF" THEN ".pdf" ELSE ext

(***************************** pure functions ******************************)
RECURSIVE SumLen(_)
\* len() of an accumulating chunk: every sentence is followed by one space
SumLen(cur) == IF cur = <<>> THEN 0 ELSE SentLen[Head(cur)] + 1 + SumLen(Tail(cur))

\* len() of a finished (stripped) chunk
ChunkLen(c) == IF c = <<>> THEN 0 ELSE SumLen(c) - 1

RECURSIVE pack_drops_closed_chunk(_, _, _, _, _)
\* a slip of the loop: the chunk that is full is not appended to chunks
pack_drops_closed_chunk(sentences, i, chunk_size, chunks, current) ==
  IF i > Len(sentences) THEN [chunks |-> chunks, current |-> current]
  ELSE LET s == sentences[i] IN
       IF SumLen(current) + SentLen[s] <= chunk_size
         THEN pack_drops_closed_chunk(sentences, i + 1, chunk_size, chunks,
                                      Append(current, s))
         ELSE pack_drops_closed_chunk(sentences, i + 1, chunk_size, chunks, <<s>>)

RECURSIVE pack_ignoring_space(_, _, _, _, _)
\* a slip of the loop: the test measures the accumulator without its
\* trailing space
pack_ignoring_space(sentences, i, chunk_size, chunks, current) ==
  IF i > Len(sentences) THEN [chunks |-> chunks, current |-> current]
  ELSE LET s == sentences[i] IN
       IF ChunkLen(current) + SentLen[s] <= chunk_size
         THEN pack_ignoring_space(sentences, i + 1, chunk_size, chunks,
                                  Append(current, s))
         ELSE pack_ignoring_space(sentences, i + 1, chunk_size,
                                  IF current # <<>> THEN Append(chunks, current)
                                                    ELSE chunks,
                                  <<s>>)

RECURSIVE pack_skips_oversized(_, _, _, _, _)
\* a slip of the loop: a sentence longer than chunk_size is left out
pack_skips_oversized(sentences, i, chunk_size, chunks, current) ==
  IF i > Len(sentences) THEN [chunks |-> chunks, current |-> current]
  ELSE LET s == sentences[i] IN
       IF SentLen[s] > chunk_size
         THEN pack_skips_oversized(sentences, i + 1, chunk_size, chunks, current)
       ELSE IF SumLen(current) + SentLen[s] <= chunk_size
         THEN pack_skips_oversized(sentences, i + 1, chunk_size, chunks,
                                   Append(current, s))
         ELSE pack_skips_oversized(sentences, i + 1, chunk_size,
                                   IF current # <<>> THEN Append(chunks, current)
                                                     ELSE chunks,
                                   <<s>>)

RECURSIVE PackLoop(_, _, _, _, _)
\* the for-loop of split_text over sentences[i..]: chunks so far and the
\* accumulating current_chunk
PackLoop(sentences, i, chunk_size, chunks, current) ==
  IF i > Len(sentences) THEN [chunks |-> chunks, current |-> current]
  ELSE LET s == sentences[i] IN
       IF SumLen(current) + SentLen[s] <= chunk_size
         THEN PackLoop(sentences, i + 1, chunk_size, chunks, Append(current, s))
         ELSE PackLoop(sentences, i + 1, chunk_size,
                       IF current # <<>> THEN Append(chunks, current) ELSE chunks,
                       <<s>>)

\* a slip of the final flush: the accumulator is appended even when empty
flush_always(p) == Append(p.chunks, p.current)

\* "if current_chunk: chunks.append(current_chunk.strip())"
Flush(p) == IF p.current # <<>> THEN Append(p.chunks, p.current) ELSE p.chunks

\* "[s.strip() for s in ... if s.strip()]"
NonBlank(seq) == SelectSeq(seq, LAMBDA s : s # Blank)

\* a slip of split_text: the sentences that strip to nothing are kept
split_text_keeping_blanks(text, chunk_size) ==
  LET p  == PackLoop(text.sents, 1, chunk_size, <<>>, <<>>)
      c1 == Flush(p)
  IN  IF c1 = <<>>
        THEN Flush(PackLoop(text.pieces, 1, chunk_size, c1, p.current))
        ELSE c1

\* a slip of split_text: the regex split is packed after the sentences
\* whether or not they gave chunks
split_text_always_fallback(text, chunk_size) ==
  LET p == PackLoop(NonBlank(text.sents), 1, chunk_size, <<>>, <<>>)
  IN  Flush(PackLoop(NonBlank(text.pieces), 1, chunk_size, Flush(p), <<>>))

\* split_text: the sentences of spaCy are packed; "if not chunks", the
\* pieces of the regex split are packed onto the same chunks and
\* current_chunk
split_text(text, chunk_size) ==
  LET p  == PackLoop(NonBlank(text.sents), 1, chunk_size, <<>>, <<>>)
      c1 == Flush(p)
  IN  IF c1 = <<>>
        THEN Flush(PackLoop(NonBlank(text.pieces), 1, chunk_size, c1, p.current))
        ELSE c1

\* a slip of extract_text_from_file: the extension is compared as written
extract_text_case_sensitive(f) ==
  IF FileTable[f].ext \in {".pdf", ".docx", ".txt"}
    THEN IF FileTable[f].readable
           THEN [raised |-> FALSE, error |-> "", text |-> FileTable[f].text]
           ELSE [raised |-> TRUE, error |-> "extraction", text |-> EmptyText]
    ELSE [raised |-> TRUE, error |-> "unsupported", text |-> EmptyText]

\* extract_text_from_file: dispatch on the lower-cased extension
extract_text_from_file(f) ==
  LET e == Lower(FileTable[f].ext) IN
  IF e \in {".pdf", ".docx", ".txt"}
    THEN IF FileTable[f].readable
           THEN [raised |-> FALSE, error |-> "", text |-> FileTable[f].text]
           ELSE [raised |-> TRUE, error |-> "extraction", text |-> EmptyText]
    ELSE [raised |-> TRUE, error |-> "unsupported", text |-> EmptyText]

\* self.split_text(text) as add_document calls it, per file
FileChunks ==
  [f \in MoreFiles |-> split_text(extract_text_from_file(f).text, DefaultChunkSize)]

RECURSIVE CodeSum(_)
CodeSum(c) == IF c = <<>> THEN 0 ELSE SentCode[Head(c)] + CodeSum(Tail(c))

\* the vector the embedding model of dimension d gives a text
Embed(c, d) == IF d = 1 THEN <<CodeSum(c)>> ELSE <<CodeSum(c), Len(c)>>

\* a slip of get_embeddings: a failed request is sent once more before the
\* error is raised
get_embeddings_retrying(texts, resp) ==
  IF resp.kind = "fail"
    THEN [raised |-> TRUE, vecs |-> <<>>, d |-> 0, posts |-> <<Len(texts), Len(texts)>>]
    ELSE LET n == IF resp.short /\ Len(texts) > 0 THEN Len(texts) - 1 ELSE Len(texts)
         IN  [raised |-> FALSE,
              vecs   |-> [i \in 1..n |-> Embed(texts[i], resp.d)],
              d      |-> resp.d,
              posts  |-> <<Len(texts)>>]

\* get_embeddings: one session.post with all the texts as input; the array
\* it returns, or the error raised.  posts lists the number of inputs of
\* every request sent.  vecs = <<>> stands for the 1-D array np.array([]) of
\* shape (0,)
get_embeddings(texts, resp) ==
  IF resp.kind = "fail"
    THEN [raised |-> TRUE, vecs |-> <<>>, d |-> 0, posts |-> <<Len(texts)>>]
    ELSE LET n == IF resp.short /\ Len(texts) > 0 THEN Len(texts) - 1 ELSE Len(texts)
         IN  [raised |-> FALSE,
              vecs   |-> [i \in 1..n |-> Embed(texts[i], resp.d)],
              d      |-> resp.d,
              posts  |-> <<Len(texts)>>]

(******************************** the state ********************************)
\* self.index is None
None == [present |-> FALSE, d |-> 0, vecs |-> <<>>]
\* faiss.IndexFlatL2(dimension)
IndexFlatL2(dimension) == [present |-> TRUE, d |-> dimension, vecs |-> <<>>]
ntotal(ix) == Len(ix.vecs)

\* a python dict with string keys; {} is the empty one
EmptyDict == [k \in {} |-> ""]
\* {**a, **b}
DictMerge(a, b) ==
  [k \in DOMAIN a \cup DOMAIN b |-> IF k \in DOMAIN b THEN b[k] ELSE a[k]]
\* the metadata argument of add_document (None and {} behave alike)
MetaArgs == {EmptyDict}

(* the artifacts of one index prefix on disk *)
NoFile == [kind |-> "missing"]
\* a truncated or otherwise unreadable artifact
Corrupt == [kind |-> "corrupt"]

RECURSIVE Flatten(_)
Flatten(vecs) == IF vecs = <<>> THEN <<>> ELSE Head(vecs) \o Flatten(Tail(vecs))

\* faiss.write_index: the blob holds d, ntotal and the coordinates in one run
write_index(ix) ==
  [kind |-> "ok", d |-> ix.d, ntotal |-> Len(ix.vecs), codes |-> Flatten(ix.vecs)]
\* a slip of the blob reader: the coordinates are read column by column
read_index_by_columns(blob) ==
  [present |-> TRUE, d |-> blob.d,
   vecs |-> [i \in 1..blob.ntotal |->
               [j \in 1..blob.d |-> blob.codes[(j - 1) * blob.ntotal + i]]]]

\* faiss.read_index of a readable blob
read_index(blob) ==
  [present |-> TRUE, d |-> blob.d,
   vecs |-> [i \in 1..blob.ntotal |-> [j \in 1..blob.d |-> blob.codes[(i - 1) * blob.d + j]]]]

\* json.dump of a dict: the object's members as key/value pairs
JsonObject(dict) == {<<k, dict[k]>> : k \in DOMAIN dict}
\* json.load of an object
JsonDict(obj) == [k \in {m[1] : m \in obj} |-> (CHOOSE m \in obj : m[1] = k)[2]]
\* the sidecar save_index writes
json_dump(docs, metas) ==
  [kind |-> "ok",
   members |-> {"documents", "metadata", "saved_date", "embedding_model"},
   documents |-> docs,
   metadata |-> [i \in 1..Len(metas) |-> JsonObject(metas[i])],
   saved_date |-> "now",
   embedding_model |-> "Qwen/Qwen3-Embedding-8B"]

\* the record of the last completed call: its arguments and what it returned
NoLast ==
  [op |-> "init", query |-> <<>>, k |-> 0, extensions |-> {}, raised |-> FALSE, ok |-> TRUE,
   error |-> "", results |-> <<>>, labels |-> <<>>, chunk_count |-> 0,
   total_chunks |-> 0, reqs |-> 0, status |-> <<>>, file_path |-> "", sent |-> <<>>,
   dim |-> 0, text |-> [sents |-> <<>>, pieces |-> <<>>], chunk_size |-> 0,
   chunks |-> <<>>, validated |-> FALSE, transport |-> <<>>, config |-> <<>>]

\* a WorkerThread slot with no thread
Idle == [pc |-> "idle"]

Init ==
  /\ index = None
  /\ documents = <<>>
  /\ document_metadata = <<>>
  /\ disk = [blob |-> NoFile, sidecar |-> NoFile]
  /\ last = NoLast
  /\ workers = [w \in 1..MaxWorkers |-> Idle]
  /\ buttons = {}

\* the metadata entry add_document stores with every chunk of file_path
ChunkMeta(file_path, metadata) ==
  DictMerge([file_path |-> file_path, file_name |-> FileTable[file_path].base,
             added_date |-> "now"], metadata)

\* what a raising add_document leaves: the state st it stopped in, the error
\* and the embedding requests sent so far
Raised(st, err, posts) ==
  [st EXCEPT !.raised = TRUE, !.error = err, !.reqs = Len(posts), !.sent = posts,
             !.chunk_count = 0, !.total_chunks = 0]

\* a slip of add_document: the chunks are appended to documents and
\* document_metadata before self.index.add is called
commit_chunks_first(st, file_path, metadata, chunks, emb) ==
  LET docs  == st.documents \o chunks
      metas == st.document_metadata
                 \o [i \in 1..Len(chunks) |-> ChunkMeta(file_path, metadata)]
      ix    == IF st.index.present THEN st.index ELSE IndexFlatL2(emb.d)
  IN
  IF emb.vecs = <<>> THEN Raised(st, "shape", emb.posts)
  ELSE IF emb.d # ix.d
    THEN Raised([st EXCEPT !.documents = docs, !.document_metadata = metas],
                "dimension", emb.posts)
    ELSE [index |-> [ix EXCEPT !.vecs = ix.vecs \o emb.vecs], documents |-> docs,
          document_metadata |-> metas, raised |-> FALSE, error |-> "",
          reqs |-> Len(emb.posts), sent |-> emb.posts,
          chunk_count |-> Len(chunks), total_chunks |-> Len(docs)]

\* a slip of add_document: the rows are added without the check of their
\* dimensionality
commit_chunks_unchecked(st, file_path, metadata, chunks, emb) ==
  IF emb.vecs = <<>> THEN Raised(st, "shape", emb.posts)
  ELSE LET ix   == IF st.index.present THEN st.index ELSE IndexFlatL2(emb.d)
           docs == st.documents \o chunks
       IN  [index |-> [ix EXCEPT !.vecs = ix.vecs \o emb.vecs], documents |-> docs,
            document_metadata |-> st.document_metadata
                                    \o [i \in 1..Len(chunks) |->
                                          ChunkMeta(file_path, metadata)],
            raised |-> FALSE, error |-> "", reqs |-> Len(emb.posts), sent |-> emb.posts,
            chunk_count |-> Len(chunks), total_chunks |-> Len(docs)]

\* a slip of add_document: the chunks of a file the metadata already names
\* are not stored again
commit_chunks_deduplicating(st, file_path, metadata, chunks, emb) ==
  IF emb.vecs = <<>> THEN Raised(st, "shape", emb.posts)
  ELSE LET ix == IF st.index.present THEN st.index ELSE IndexFlatL2(emb.d) IN
       IF emb.d # ix.d THEN Raised(st, "dimension", emb.posts)
       ELSE IF \E i \in DOMAIN st.document_metadata :
                 st.document_metadata[i] = ChunkMeta(file_path, metadata)
         THEN [st EXCEPT !.reqs = Len(emb.posts), !.sent = emb.posts,
                         !.chunk_count = 0, !.total_chunks = Len(st.documents)]
         ELSE [index             |-> [ix EXCEPT !.vecs = ix.vecs \o emb.vecs],
               documents         |-> st.documents \o chunks,
               document_metadata |-> st.document_metadata
                                       \o [i \in 1..Len(chunks) |->
                                             ChunkMeta(file_path, metadata)],
               raised            |-> FALSE,
               error             |-> "",
               reqs              |-> Len(emb.posts),
               sent              |-> emb.posts,
               chunk_count       |-> Len(chunks),
               total_chunks      |-> Len(st.documents) + Len(chunks)]

\* a slip of add_document: the new chunks, metadata and vectors are put in
\* front of the stored ones
commit_chunks_prepending(st, file_path, metadata, chunks, emb) ==
  IF emb.vecs = <<>> THEN Raised(st, "shape", emb.posts)
  ELSE LET ix == IF st.index.present THEN st.index ELSE IndexFlatL2(emb.d) IN
       IF emb.d # ix.d THEN Raised(st, "dimension", emb.posts)
       ELSE [index             |-> [ix EXCEPT !.vecs = emb.vecs \o ix.vecs],
             documents         |-> chunks \o st.documents,
             document_metadata |-> [i \in 1..Len(chunks) |->
                                      ChunkMeta(file_path, metadata)]
                                     \o st.document_metadata,
             raised            |-> FALSE,
             error             |-> "",
             reqs              |-> Len(emb.posts),
             sent              |-> emb.posts,
             chunk_count       |-> Len(chunks),
             total_chunks      |-> Len(st.documents) + Len(chunks)]

\* add_document from "if self.index is None" on: create the index when there
\* is none, self.index.add(embeddings), then append the chunks and their
\* metadata and build the returned record
commit_chunks(st, file_path, metadata, chunks, emb) ==
  \* embeddings.shape[1] and index.add both raise on the 1-D empty array
  IF emb.vecs = <<>> THEN Raised(st, "shape", emb.posts)
  ELSE LET ix == IF st.index.present THEN st.index ELSE IndexFlatL2(emb.d) IN
       \* index.add asserts that the rows have the index's dimensionality
       IF emb.d # ix.d THEN Raised(st, "dimension", emb.posts)
       ELSE LET docs == st.documents \o chunks IN
            [index             |-> [ix EXCEPT !.vecs = ix.vecs \o emb.vecs],
             documents         |-> docs,
             document_metadata |-> st.document_metadata
                                     \o [i \in 1..Len(chunks) |->
                                           ChunkMeta(file_path, metadata)],
             raised            |-> FALSE,
             error             |-> "",
             reqs              |-> Len(emb.posts),
             sent              |-> emb.posts,
             chunk_count       |-> Len(chunks),
             total_chunks      |-> Len(docs)]

\* add_document as a function of the state: the new (index, documents,
\* document_metadata), whether it raised, what it returned, and how many
\* embedding requests it sent
add_document_on(st, file_path, metadata, resp) ==
  LET x      == extract_text_from_file(file_path)
      chunks == FileChunks[file_path]
      emb    == get_embeddings(chunks, resp)
  IN
  IF x.raised THEN Raised(st, x.error, <<>>)
  ELSE IF emb.raised THEN Raised(st, "embedding", emb.posts)
  ELSE commit_chunks(st, file_path, metadata, chunks, emb)

\* the in-memory state as the record add_document_on works on
Mem ==
  [index |-> index, documents |-> documents, document_metadata |-> document_metadata,
   raised |-> FALSE, error |-> "", reqs |-> 0, sent |-> <<>>, chunk_count |-> 0,
   total_chunks |-> 0]

\* the record of an add_document(file_path) call with outcome r
AddDocumentCall(file_path, resp, r) ==
  [NoLast EXCEPT !.op = "add_document", !.file_path = file_path,
                 !.raised = r.raised, !.error = r.error, !.reqs = r.reqs,
                 !.sent = r.sent,
                 \* embeddings.shape[1], when there is such an array
                 !.dim = IF r.error \in {"", "dimension"} THEN resp.d ELSE 0,
                 !.chunk_count = r.chunk_count,
                 !.total_chunks = r.total_chunks]

add_document(file_path, metadata, resp) ==
  \E r \in {add_document_on(Mem, file_path, metadata, resp)} :
  /\ Len(r.documents) <= MaxDocs
  /\ ntotal(r.index) <= MaxDocs
  /\ index' = r.index
  /\ documents' = r.documents
  /\ document_metadata' = r.document_metadata
  /\ last' = AddDocumentCall(file_path, resp, r)
  /\ UNCHANGED disk

\* the documents arguments of build_index explored (metadata is left None)
BuildArgs == {<<>>, <<<<"s3">>>>}

\* build_index(documents): a new index of the embeddings' dimensionality
\* replaces the old one, documents becomes the argument and every chunk
\* gets the empty metadata dict
build_index(docs, resp) ==
  \E emb \in {get_embeddings(docs, resp)} :
  /\ IF docs = <<>>
       THEN /\ last' = [NoLast EXCEPT !.op = "build_index", !.raised = TRUE,
                                      !.error = "empty"]
            /\ UNCHANGED <<index, documents, document_metadata>>
     ELSE IF emb.raised \/ emb.vecs = <<>>
       \* the request failed, or embeddings.shape[1] raised on the 1-D array
       THEN /\ last' = [NoLast EXCEPT !.op = "build_index", !.raised = TRUE,
                                      !.error = IF emb.raised THEN "embedding" ELSE "shape",
                                      !.reqs = Len(emb.posts), !.sent = emb.posts]
            /\ UNCHANGED <<index, documents, document_metadata>>
       ELSE /\ Len(docs) <= MaxDocs
            /\ index' = [IndexFlatL2(emb.d) EXCEPT !.vecs = emb.vecs]
            /\ documents' = docs
            /\ document_metadata' = [i \in 1..Len(docs) |-> EmptyDict]
            /\ last' = [NoLast EXCEPT !.op = "build_index", !.reqs = Len(emb.posts),
                                      !.sent = emb.posts, !.dim = emb.d]
  /\ UNCHANGED disk

\* a slip of clear_index: the index object is kept
clear_keeps_index ==
  /\ documents' = <<>>
  /\ document_metadata' = <<>>
  /\ last' = [NoLast EXCEPT !.op = "clear_index"]
  /\ UNCHANGED <<index, disk>>

clear_index ==
  /\ index' = None
  /\ documents' = <<>>
  /\ document_metadata' = <<>>
  /\ last' = [NoLast EXCEPT !.op = "clear_index"]
  /\ UNCHANGED disk

\* how the file system treats one save_index: every write succeeds, or
\* makedirs fails (nothing is written), or opening the sidecar fails (the
\* blob is written), or json.dump fails after the sidecar was truncated
SaveIO == {"ok", "makedirs", "open", "dump"}

save_index(io) ==
  /\ IF ~index.present
       THEN /\ last' = [NoLast EXCEPT !.op = "save_index", !.ok = FALSE]
            /\ UNCHANGED disk
       ELSE /\ disk' =
                 CASE io = "makedirs"    -> disk
                   [] io = "open"        -> [disk EXCEPT !.blob = write_index(index)]
                   [] io = "dump"        -> [blob    |-> write_index(index),
                                             sidecar |-> Corrupt]
                   [] OTHER              -> [blob    |-> write_index(index),
                                             sidecar |-> json_dump(documents,
                                                                   document_metadata)]
            /\ last' = [NoLast EXCEPT !.op = "save_index", !.ok = (io = "ok")]
  /\ UNCHANGED <<index, documents, document_metadata>>

load_index ==
  /\ IF disk.blob.kind # "ok"
       \* faiss.read_index raised: nothing was assigned
       THEN UNCHANGED <<index, documents, document_metadata>>
       ELSE /\ index' = read_index(disk.blob)
            /\ IF disk.sidecar.kind # "ok"
                 \* open() or json.load raised after self.index was assigned
                 THEN UNCHANGED <<documents, document_metadata>>
                 ELSE /\ documents' =
                           IF "documents" \in disk.sidecar.members
                             THEN disk.sidecar.documents ELSE documents
                      /\ document_metadata' =
                           IF {"documents", "metadata"} \subseteq disk.sidecar.members
                             THEN [i \in 1..Len(disk.sidecar.metadata) |->
                                     JsonDict(disk.sidecar.metadata[i])]
                             ELSE document_metadata
  /\ last' = [NoLast EXCEPT !.op = "load_index",
                            !.ok = /\ disk.blob.kind = "ok"
                                   /\ disk.sidecar.kind = "ok"
                                   /\ {"documents", "metadata"} \subseteq disk.sidecar.members]
  /\ UNCHANGED disk

\* file_extensions = None selects the default list
DefaultExtensions == {".pdf", ".docx", ".txt"}
\* the file_extensions arguments explored
ExtArgs == {DefaultExtensions, {".md", ".txt"}}
\* "any(file.lower().endswith(ext) for ext in file_extensions)"
MatchesFilter(f, file_extensions) == Lower(FileTable[f].ext) \in file_extensions

\* the number of files of the folder that get as far as an embedding request
FolderRequests ==
  Cardinality({i \in DOMAIN FolderFiles : ~extract_text_from_file(FolderFiles[i]).raised})

RECURSIVE walk_stops_at_failure(_, _, _, _, _, _)
\* a slip of add_documents_from_folder: the first file that fails ends the
\* walk
walk_stops_at_failure(st, i, file_extensions, resps, results, sent) ==
  IF i > Len(FolderFiles) THEN [st |-> st, results |-> results, sent |-> sent]
  ELSE LET file_path == FolderFiles[i] IN
       IF ~MatchesFilter(file_path, file_extensions)
         THEN walk_stops_at_failure(st, i + 1, file_extensions, resps, results, sent)
         ELSE LET r == add_document_on(st, file_path, EmptyDict,
                                       resps[IF Len(sent) < Len(resps)
                                               THEN Len(sent) + 1 ELSE 1])
              IN  IF r.raised
                    THEN [st |-> r, sent |-> sent \o r.sent,
                          results |-> Append(results,
                                             [file_path |-> file_path, status |-> "error",
                                              error |-> r.error])]
                    ELSE walk_stops_at_failure(r, i + 1, file_extensions, resps,
                           Append(results,
                                  [file_path |-> file_path, chunk_count |-> r.chunk_count,
                                   total_chunks |-> r.total_chunks, status |-> "success"]),
                           sent \o r.sent)

RECURSIVE walk_unfiltered(_, _, _, _, _, _)
\* a slip of add_documents_from_folder: every file of the folder is handed
\* to add_document, whatever its extension
walk_unfiltered(st, i, file_extensions, resps, results, sent) ==
  IF i > Len(FolderFiles) THEN [st |-> st, results |-> results, sent |-> sent]
  ELSE LET file_path == FolderFiles[i]
           r   == add_document_on(st, file_path, EmptyDict,
                                  resps[IF Len(sent) < Len(resps)
                                          THEN Len(sent) + 1 ELSE 1])
           rec == IF r.raised
                    THEN [file_path |-> file_path, status |-> "error",
                          error |-> r.error]
                    ELSE [file_path |-> file_path, chunk_count |-> r.chunk_count,
                          total_chunks |-> r.total_chunks, status |-> "success"]
       IN  walk_unfiltered(r, i + 1, file_extensions, resps,
                           Append(results, rec), sent \o r.sent)

RECURSIVE walk_keeps_failed_chunks(_, _, _, _, _, _)
\* a slip of add_documents_from_folder: the chunks of a file whose
\* add_document raised are stored all the same
walk_keeps_failed_chunks(st, i, file_extensions, resps, results, sent) ==
  IF i > Len(FolderFiles) THEN [st |-> st, results |-> results, sent |-> sent]
  ELSE LET file_path == FolderFiles[i] IN
       IF ~MatchesFilter(file_path, file_extensions)
         THEN walk_keeps_failed_chunks(st, i + 1, file_extensions, resps, results, sent)
         ELSE LET r   == add_document_on(st, file_path, EmptyDict,
                                         resps[IF Len(sent) < Len(resps)
                                                 THEN Len(sent) + 1 ELSE 1])
                  rec == IF r.raised
                           THEN [file_path |-> file_path, status |-> "error",
                                 error |-> r.error]
                           ELSE [file_path |-> file_path, chunk_count |-> r.chunk_count,
                                 total_chunks |-> r.total_chunks, status |-> "success"]
                  kept == IF r.raised
                            THEN [r EXCEPT !.documents = @ \o FileChunks[file_path],
                                           !.document_metadata =
                                             @ \o [n \in 1..Len(FileChunks[file_path]) |->
                                                     ChunkMeta(file_path, EmptyDict)]]
                            ELSE r
              IN  walk_keeps_failed_chunks(kept, i + 1, file_extensions, resps,
                                           Append(results, rec), sent \o r.sent)

RECURSIVE FolderLoop(_, _, _, _, _, _)
\* the os.walk loop of add_documents_from_folder from file i on; sent lists
\* the embedding requests of the walk so far and resps[n] is what the
\* embedding service does with the n-th of them
FolderLoop(st, i, file_extensions, resps, results, sent) ==
  IF i > Len(FolderFiles) THEN [st |-> st, results |-> results, sent |-> sent]
  ELSE LET file_path == FolderFiles[i] IN
       IF ~MatchesFilter(file_path, file_extensions)
         THEN FolderLoop(st, i + 1, file_extensions, resps, results, sent)
         ELSE LET r   == add_document_on(st, file_path, EmptyDict,
                                         resps[IF Len(sent) < Len(resps)
                                                 THEN Len(sent) + 1 ELSE 1])
                  rec == IF r.raised
                           THEN [file_path |-> file_path, status |-> "error",
                                 error |-> r.error]
                           ELSE [file_path |-> file_path, chunk_count |-> r.chunk_count,
                                 total_chunks |-> r.total_chunks, status |-> "success"]
              IN  FolderLoop(r, i + 1, file_extensions, resps,
                             Append(results, rec), sent \o r.sent)

add_documents_from_folder(file_extensions, resps) ==
  \E w \in {FolderLoop(Mem, 1, file_extensions, resps, <<>>, <<>>)} :
  /\ Len(w.st.documents) <= MaxDocs
  /\ ntotal(w.st.index) <= MaxDocs
  /\ index' = w.st.index
  /\ documents' = w.st.documents
  /\ document_metadata' = w.st.document_metadata
  /\ last' = [NoLast EXCEPT !.op = "add_documents_from_folder",
                            !.extensions = file_extensions, !.results = w.results,
                            !.reqs = Len(w.sent), !.sent = w.sent]
  /\ UNCHANGED disk

RECURSIVE SqDist(_, _)
\* squared Euclidean distance of two vectors of one length
SqDist(u, v) ==
  IF u = <<>> THEN 0
  ELSE (Head(u) - Head(v)) * (Head(u) - Head(v)) + SqDist(Tail(u), Tail(v))

\* the orders in which IndexFlatL2 may rank its vectors for a query: nearest
\* first, vectors at equal distance in any order
Rankings(vecs, qv) ==
  {p \in Permutations(1..Len(vecs)) :
     \A i \in 1..(Len(vecs) - 1) : SqDist(vecs[p[i]], qv) <= SqDist(vecs[p[i + 1]], qv)}

\* index.search(query_embedding, k), first row: k labels (0-based positions)
\* and k distances; the slots past ntotal hold NotFound and FLT_MAX
index_search(ix, qv, k, p) ==
  [labels    |-> [i \in 1..k |-> IF i <= Len(ix.vecs) THEN p[i] - 1 ELSE NotFound],
   distances |-> [i \in 1..k |-> IF i <= Len(ix.vecs)
                                   THEN SqDist(ix.vecs[p[i]], qv) ELSE FLT_MAX]]

\* python's seq[idx] for a list: negative idx counts from the end
InRange(seq, idx) == -Len(seq) <= idx /\ idx < Len(seq)
Item(seq, idx) == IF idx >= 0 THEN seq[idx + 1] ELSE seq[Len(seq) + idx + 1]

\* the result-building loop of search: the slots it keeps
Kept(found) == {i \in DOMAIN found.labels : found.labels[i] < Len(documents)}

RECURSIVE JoinLoop(_, _)
JoinLoop(found, i) ==
  IF i > Len(found.labels) THEN <<>>
  ELSE IF i \in Kept(found)
         THEN <<[document |-> Item(documents, found.labels[i]),
                 metadata |-> Item(document_metadata, found.labels[i]),
                 score    |-> found.distances[i]]>> \o JoinLoop(found, i + 1)
         ELSE JoinLoop(found, i + 1)

Queries == {<<"s1">>, <<"q1">>}

\* a slip of search: only a missing index object counts as empty
NoIndexObject == ~index.present

\* "if self.index is None or len(self.documents) == 0: return []"
NothingToSearch == ~index.present \/ Len(documents) = 0

\* the record of a search(query, k) call, before its outcome is known
SearchCall(query, k) == [NoLast EXCEPT !.op = "search", !.query = query, !.k = k]

\* the record of a search that got as far as index.search: it raised on a
\* label outside documents or document_metadata, or returned the joined list
Joined(query, k, emb, found) ==
  IF \E i \in Kept(found) :
       ~InRange(documents, found.labels[i])
         \/ ~InRange(document_metadata, found.labels[i])
    THEN [SearchCall(query, k) EXCEPT !.raised = TRUE,
                                      !.error = "IndexError",
                                      !.reqs = Len(emb.posts),
                                      !.sent = emb.posts,
                                      !.labels = found.labels]
    ELSE [SearchCall(query, k) EXCEPT !.reqs = Len(emb.posts),
                                      !.sent = emb.posts,
                                      !.labels = found.labels,
                                      !.results = JoinLoop(found, 1)]

\* the records search(query, k) may end with, one per order in which faiss
\* may rank vectors at equal distance
search_outcomes(query, k, resp) ==
  IF NothingToSearch THEN {SearchCall(query, k)}
  ELSE LET emb == get_embeddings(<<query>>, resp) IN
       IF emb.raised
         THEN {[SearchCall(query, k) EXCEPT !.raised = TRUE,
                                            !.error = "embedding",
                                            !.reqs = Len(emb.posts),
                                            !.sent = emb.posts]}
       ELSE IF emb.vecs = <<>> \/ emb.d # index.d
         \* faiss rejects an array that is not n x d
         THEN {[SearchCall(query, k) EXCEPT !.raised = TRUE,
                                            !.error = "dimension",
                                            !.reqs = Len(emb.posts),
                                            !.sent = emb.posts]}
       ELSE {Joined(query, k, emb, index_search(index, emb.vecs[1], k, p)) :
               p \in Rankings(index.vecs, emb.vecs[1])}

search(query, k, resp) ==
  /\ last' \in search_outcomes(query, k, resp)
  /\ UNCHANGED <<index, documents, document_metadata, disk>>

\* validate_with_rag on one citation: the search of its query with k = 3,
\* and the citation marked validated when the list returned is not empty;
\* an error of search is not caught
validate_with_rag(query, resp) ==
  /\ last' \in {[s EXCEPT !.op = "validate_with_rag",
                          !.validated = (~s.raised /\ s.results # <<>>)] :
                 s \in search_outcomes(query, ValidateK, resp)}
  /\ UNCHANGED <<index, documents, document_metadata, disk>>

\* get_index_status as a function of the three structures; file_stats counts
\* the chunks per meta.get("file_path", unknown)
StatusPath(meta) == IF "file_path" \in DOMAIN meta THEN meta["file_path"] ELSE "unknown"
get_index_status_of(ix, docs, metas) ==
  IF ~ix.present
    THEN [status |-> "uninitialized", document_count |-> 0, file_count |-> 0,
          dimension |-> 0]
    ELSE LET paths == {StatusPath(metas[i]) : i \in DOMAIN metas} IN
         [status |-> "initialized", document_count |-> Len(docs),
          file_count |-> Cardinality(paths), dimension |-> ix.d,
          file_stats |-> [fp \in paths |->
                            Cardinality({i \in DOMAIN metas : StatusPath(metas[i]) = fp})]]

\* a slip of get_index_status: the status computed when the instance was
\* constructed is returned
get_index_status_at_construction ==
  /\ last' = [NoLast EXCEPT !.op = "get_index_status",
                            !.status = get_index_status_of(None, <<>>, <<>>)]
  /\ UNCHANGED <<index, documents, document_metadata, disk>>

get_index_status ==
  /\ last' = [NoLast EXCEPT !.op = "get_index_status",
                            !.status = get_index_status_of(index, documents,
                                                           document_metadata)]
  /\ UNCHANGED <<index, documents, document_metadata, disk>>

\* "return self.index is not None and len(self.documents) > 0"
is_index_loaded ==
  /\ last' = [NoLast EXCEPT !.op = "is_index_loaded",
                            !.ok = (index.present /\ Len(documents) > 0)]
  /\ UNCHANGED <<index, documents, document_metadata, disk>>

(* the calls of a single-threaded caller: nothing of the frontend moves *)
BuildIndex ==
  /\ \E d \in BuildArgs, r \in Responses : build_index(d, r)
  /\ UNCHANGED ui

AddDocument ==
  /\ \E f \in Files, m \in MetaArgs, r \in Responses : add_document(f, m, r)
  /\ UNCHANGED ui

AddDocumentsFromFolder ==
  /\ \E e \in ExtArgs, rs \in [1..FolderRequests -> Responses] :
       add_documents_from_folder(e, rs)
  /\ UNCHANGED ui

Search ==
  /\ \E q \in Queries, k \in 1..MaxK, r \in Responses : search(q, k, r)
  /\ UNCHANGED ui

SaveIndex ==
  /\ \E io \in SaveIO : save_index(io)
  /\ UNCHANGED ui

LoadIndex == load_index /\ UNCHANGED ui

ClearIndex == clear_index /\ UNCHANGED ui

GetIndexStatus == get_index_status /\ UNCHANGED ui

IsIndexLoaded == is_index_loaded /\ UNCHANGED ui

\* the operations the program performs on its RAGBuilder (qt_frontend.py and
\* citation_validator.py never call build_index)
Next ==
  \/ AddDocument
  \/ AddDocumentsFromFolder
  \/ Search
  \/ SaveIndex
  \/ LoadIndex
  \/ ClearIndex
  \/ GetIndexStatus
  \/ IsIndexLoaded

Spec == Init /\ [][Next]_vars

\* the operations of the class that assign or replace the index, build_index
\* included, with the two status queries
NextBuild ==
  \/ BuildIndex
  \/ AddDocument
  \/ SaveIndex
  \/ LoadIndex
  \/ ClearIndex
  \/ GetIndexStatus
  \/ IsIndexLoaded

SpecBuild == Init /\ [][NextBuild]_vars

\* the operations that change the corpus or its artifacts, with
\* get_index_status
NextIngest ==
  \/ AddDocument
  \/ AddDocumentsFromFolder
  \/ SaveIndex
  \/ LoadIndex
  \/ ClearIndex
  \/ GetIndexStatus

SpecIngest == Init /\ [][NextIngest]_vars

AddAnyDocument ==
  /\ \E f \in MoreFiles, m \in MetaArgs, r \in Responses : add_document(f, m, r)
  /\ UNCHANGED ui

\* the operations that append to the corpus or clear it, on files with
\* different texts so that the order of what is stored shows
NextAppend ==
  \/ AddAnyDocument
  \/ AddDocumentsFromFolder
  \/ ClearIndex
  \/ GetIndexStatus

SpecAppend == Init /\ [][NextAppend]_vars

\* metadata mappings a caller of add_document may pass: none, a key of its
\* own, and keys that add_document also writes
CallerMeta ==
  {EmptyDict, [page |-> "1"], [file_path |-> "dir/b.PDF"], [file_name |-> "x.txt"]}

AddDocumentWithMetadata ==
  /\ \E f \in Files, m \in CallerMeta, r \in Responses : add_document(f, m, r)
  /\ UNCHANGED ui

\* ingestion by a caller that passes metadata, and what reports on it
NextMetadata ==
  \/ AddDocumentWithMetadata
  \/ ClearIndex
  \/ GetIndexStatus

SpecMetadata == Init /\ [][NextMetadata]_vars

ValidateWithRag ==
  /\ \E q \in Queries, r \in Responses : validate_with_rag(q, r)
  /\ UNCHANGED ui

\* the citation validator on a builder that documents are added to and
\* indexes are loaded into
NextValidate ==
  \/ AddDocument
  \/ SaveIndex
  \/ LoadIndex
  \/ ClearIndex
  \/ ValidateWithRag

SpecValidate == Init /\ [][NextValidate]_vars

\* the embedding service also answering with fewer vectors than inputs
ServiceResponses == Responses \cup ShortResponses

AddDocumentAnyAnswer ==
  /\ \E f \in Files, m \in MetaArgs, r \in ServiceResponses : add_document(f, m, r)
  /\ UNCHANGED ui

SearchAnyAnswer ==
  /\ \E q \in Queries, k \in 1..MaxK, r \in ServiceResponses : search(q, k, r)
  /\ UNCHANGED ui

NextService ==
  \/ AddDocumentAnyAnswer
  \/ SearchAnyAnswer
  \/ ClearIndex
  \/ GetIndexStatus

SpecService == Init /\ [][NextService]_vars

(***************************************************************************)
(* The frontend (qt_frontend.py) with an API key set: the handlers of the   *)
(* main thread and the WorkerThreads they start on the one RAGBuilder.      *)
(***************************************************************************)
\* update_index_status: the buttons it leaves enabled
update_index_status(ix) == IF ix.present THEN {"save", "clear", "validate"} ELSE {}

\* the files the user picks for "add file": one that can be ingested and
\* one of an unsupported format
PickedFiles == {"dir/b.PDF", "dir/c.md"}
\* what the embedding service does with a worker's request
WorkerResponses == {r \in Responses : r.d # 2}
\* the queries validate_with_rag builds from the citations
CitationQueries == {<<"q1">>}
\* how the file system treats a save_index of the frontend
DialogIO == {"ok", "open"}

\* the WorkerThreads whose run() has not returned
InFlight == {w \in 1..MaxWorkers : workers[w].pc \in {"running", "indexed"}}

\* "self.worker = WorkerThread(func, arg) ... self.worker.start()": the
\* thread gets the first free slot; nothing looks at the threads running
start(func, arg) ==
  \E w \in 1..MaxWorkers :
    /\ workers[w] = Idle
    /\ \A v \in 1..(w - 1) : workers[v] # Idle
    /\ workers' = [workers EXCEPT ![w] = [pc |-> "running", func |-> func, arg |-> arg]]

add_file_to_rag ==
  /\ \E f \in PickedFiles : start("add_document", f)
  /\ UNCHANGED <<index, documents, document_metadata, disk, last, buttons>>

add_folder_to_rag ==
  /\ start("add_documents_from_folder", "dir")
  /\ UNCHANGED <<index, documents, document_metadata, disk, last, buttons>>

\* needs the validate button enabled and is_index_loaded()
validate_citations ==
  /\ "validate" \in buttons
  /\ index.present /\ Len(documents) > 0
  /\ \E q \in CitationQueries : start("validate_with_rag", q)
  /\ UNCHANGED <<index, documents, document_metadata, disk, last, buttons>>

\* WorkerThread.run: finished.emit(result) or error.emit(str(e)); the
\* signal is queued for the main thread
emit(w, signal) == [workers EXCEPT ![w] = [@ EXCEPT !.pc = "emitted"] @@ [signal |-> signal]]

\* a worker's add_document up to self.index.add(embeddings)
run_add_document(w) ==
  /\ workers[w].pc = "running" /\ workers[w].func = "add_document"
  /\ \E resp \in WorkerResponses :
     \E r \in {add_document_on(Mem, workers[w].arg, EmptyDict, resp)} :
       IF r.raised
         THEN /\ workers' = emit(w, "error")
              /\ last' = AddDocumentCall(workers[w].arg, resp, r)
              /\ UNCHANGED index
         ELSE /\ ntotal(r.index) <= MaxDocs
              /\ index' = r.index
              /\ workers' = [workers EXCEPT ![w] = [@ EXCEPT !.pc = "indexed"]
                                                       @@ [resp |-> resp]]
              /\ UNCHANGED last
  /\ UNCHANGED <<documents, document_metadata, disk, buttons>>

\* a worker's add_document from the loop over the chunks to its return
append_chunks(w) ==
  /\ workers[w].pc = "indexed"
  /\ LET file_path == workers[w].arg
         chunks    == FileChunks[file_path]
         docs      == documents \o chunks
     IN  /\ Len(docs) <= MaxDocs
         /\ documents' = docs
         /\ document_metadata' =
              document_metadata \o [i \in 1..Len(chunks) |-> ChunkMeta(file_path, EmptyDict)]
         /\ last' = AddDocumentCall(file_path, workers[w].resp,
                                    [raised |-> FALSE, error |-> "", reqs |-> 1,
                                     sent |-> <<Len(chunks)>>,
                                     chunk_count |-> Len(chunks),
                                     total_chunks |-> Len(docs)])
  /\ workers' = emit(w, "finished")
  /\ UNCHANGED <<index, disk, buttons>>

\* a worker's add_documents_from_folder(folder_path), the walk as one step
run_add_documents_from_folder(w) ==
  /\ workers[w].pc = "running" /\ workers[w].func = "add_documents_from_folder"
  /\ \E rs \in [1..FolderRequests -> WorkerResponses] :
       add_documents_from_folder(DefaultExtensions, rs)
  /\ workers' = emit(w, "finished")
  /\ UNCHANGED buttons

\* a worker's validate_with_rag on one citation
run_validate_with_rag(w) ==
  /\ workers[w].pc = "running" /\ workers[w].func = "validate_with_rag"
  /\ \E r \in WorkerResponses : validate_with_rag(workers[w].arg, r)
  /\ workers' = emit(w, IF last'.raised THEN "error" ELSE "finished")
  /\ UNCHANGED buttons

\* on_add_document_finished, on_add_documents_finished and
\* on_validate_citations_finished, run by the main thread
on_finished(w) ==
  /\ workers[w].pc = "emitted" /\ workers[w].signal = "finished"
  /\ buttons' = IF workers[w].func = "validate_with_rag"
                  THEN buttons ELSE update_index_status(index)
  /\ workers' = [workers EXCEPT ![w] = Idle]
  /\ UNCHANGED <<index, documents, document_metadata, disk, last>>

on_worker_error(w) ==
  /\ workers[w].pc = "emitted" /\ workers[w].signal = "error"
  /\ workers' = [workers EXCEPT ![w] = Idle]
  /\ UNCHANGED <<index, documents, document_metadata, disk, last, buttons>>

\* RAGFrontend.clear_index, the question answered with Yes
RAGFrontend_clear_index ==
  /\ "clear" \in buttons
  /\ clear_index
  /\ buttons' = update_index_status(index') \ {"validate"}
  /\ UNCHANGED workers

\* RAGFrontend.save_index with a path chosen
RAGFrontend_save_index ==
  /\ "save" \in buttons
  /\ index.present
  /\ \E io \in DialogIO : save_index(io)
  /\ buttons' = IF last'.ok THEN update_index_status(index) ELSE buttons
  /\ UNCHANGED workers

\* RAGFrontend.load_index_dialog with a path chosen: both files must exist
RAGFrontend_load_index ==
  /\ disk.blob.kind # "missing" /\ disk.sidecar.kind # "missing"
  /\ load_index
  /\ buttons' = IF last'.ok THEN update_index_status(index') \cup {"validate"}
                  ELSE buttons
  /\ UNCHANGED workers

RunAddDocument == \E w \in 1..MaxWorkers : run_add_document(w)
AppendChunks == \E w \in 1..MaxWorkers : append_chunks(w)
RunAddDocumentsFromFolder == \E w \in 1..MaxWorkers : run_add_documents_from_folder(w)
RunValidateWithRag == \E w \in 1..MaxWorkers : run_validate_with_rag(w)
OnFinished == \E w \in 1..MaxWorkers : on_finished(w)
OnWorkerError == \E w \in 1..MaxWorkers : on_worker_error(w)

NextFrontend ==
  \/ add_file_to_rag
  \/ add_folder_to_rag
  \/ validate_citations
  \/ RAGFrontend_clear_index
  \/ RAGFrontend_save_index
  \/ RAGFrontend_load_index
  \/ RunAddDocument
  \/ AppendChunks
  \/ RunAddDocumentsFromFolder
  \/ RunValidateWithRag
  \/ OnFinished
  \/ OnWorkerError

SpecFrontend == Init /\ [][NextFrontend]_vars

(***************************************************************************)
(* split_text on its own: the initial states draw a text and a chunk_size, *)
(* the one action applies split_text to them.                              *)
(***************************************************************************)
\* the sequences of at most n sentences, blank ones among them
SentenceSeqs(n) == UNION {[1..m -> Sentences \cup {Blank}] : m \in 0..n}

\* the texts: those the two segmentations cut alike, those spaCy finds no
\* sentence in and only the regex split does, and those the regex split
\* leaves in one piece
Texts ==
  {[sents |-> q, pieces |-> q] : q \in SentenceSeqs(MaxSents)}
    \cup {[sents |-> <<>>, pieces |-> q] : q \in SentenceSeqs(MaxSents)}
    \cup {[sents |-> q, pieces |-> <<s>>] :
            q \in SentenceSeqs(MaxSents), s \in Sentences \cup {Blank}}

\* the default, sizes one pair of sentences fits exactly and misses by one,
\* a size three of the four sentences exceed, and one every sentence exceeds
ChunkSizes == {DefaultChunkSize, 421, 420, 100, 0}

InitSplit ==
  /\ index = None
  /\ documents = <<>>
  /\ document_metadata = <<>>
  /\ disk = [blob |-> NoFile, sidecar |-> NoFile]
  /\ workers = [w \in 1..MaxWorkers |-> Idle]
  /\ buttons = {}
  /\ last \in {[NoLast EXCEPT !.op = "text", !.text = t, !.chunk_size = n] :
                 t \in Texts, n \in ChunkSizes}

SplitText ==
  /\ last.op = "text"
  /\ last' = [last EXCEPT !.op = "split_text",
                          !.chunks = split_text(last.text, last.chunk_size)]
  /\ UNCHANGED <<index, documents, document_metadata, disk, workers, buttons>>

SpecSplit == InitSplit /\ [][SplitText]_vars

(***************************************************************************)
(* The transport of get_embeddings on its own: the initial states draw the *)
(* proxy configuration of the RAGBuilder and the proxy variables of the    *)
(* environment, the one action sends the request.                          *)
(***************************************************************************)
\* proxy_url = None
NoUrl == "None"
\* the proxy_url values of the constructor
ProxyUrls == {NoUrl, "", "http://cfg-a", "http://cfg-b"}
\* the environment: HTTP_PROXY, HTTPS_PROXY and ALL_PROXY, each unset ("")
\* or naming a proxy, and whether NO_PROXY covers the embedding host
Envs ==
  [http_proxy : {"", "http://env-http"}, https_proxy : {"", "http://env-https"},
   all_proxy : {"", "http://env-all"}, no_proxy : BOOLEAN]

\* a slip of get_embeddings: trust_env is left as requests.Session() sets it
session_trusting_env(use_proxy, proxy_url) ==
  IF use_proxy /\ proxy_url \notin {NoUrl, ""}
    THEN [proxies |-> [k \in {"http", "https"} |-> proxy_url], trust_env |-> TRUE]
    ELSE [proxies |-> EmptyDict, trust_env |-> TRUE]

\* the session get_embeddings configures: "if self.use_proxy and
\* self.proxy_url" sets session.proxies, else trust_env is switched off
configured_session(use_proxy, proxy_url) ==
  IF use_proxy /\ proxy_url \notin {NoUrl, ""}
    THEN [proxies |-> [k \in {"http", "https"} |-> proxy_url], trust_env |-> TRUE]
    ELSE [proxies |-> EmptyDict, trust_env |-> FALSE]

\* getproxies(): the proxy variables that are set, by scheme
getproxies(env) ==
  LET set == {k \in {"http", "https", "all"} :
                (CASE k = "http" -> env.http_proxy [] k = "https" -> env.https_proxy
                   [] OTHER -> env.all_proxy) # ""}
  IN  [k \in set |-> CASE k = "http" -> env.http_proxy [] k = "https" -> env.https_proxy
                        [] OTHER -> env.all_proxy]

\* session.post of an https URL as requests routes it: with trust_env the
\* environment's proxies, unless NO_PROXY covers the host, take precedence
\* over session.proxies key by key; then the entry for https, or else for
\* all, is the proxy, and without either the connection is direct
Route(use_proxy, proxy_url, env) ==
  LET session == configured_session(use_proxy, proxy_url)
      environ == IF session.trust_env /\ ~env.no_proxy THEN getproxies(env) ELSE EmptyDict
      proxies == DictMerge(session.proxies, environ)
  IN  IF "https" \in DOMAIN proxies THEN proxies["https"]
      ELSE IF "all" \in DOMAIN proxies THEN proxies["all"]
      ELSE "direct"

InitTransport ==
  /\ index = None
  /\ documents = <<>>
  /\ document_metadata = <<>>
  /\ disk = [blob |-> NoFile, sidecar |-> NoFile]
  /\ workers = [w \in 1..MaxWorkers |-> Idle]
  /\ buttons = {}
  /\ last \in {[NoLast EXCEPT !.op = "session",
                               !.transport = [use_proxy |-> u, proxy_url |-> p,
                                              env |-> e, route |-> ""]] :
                 u \in BOOLEAN, p \in ProxyUrls, e \in Envs}

\* the session.post of get_embeddings
Post ==
  /\ last.op = "session"
  /\ last' = [last EXCEPT !.op = "post",
                          !.transport.route = Route(last.transport.use_proxy,
                                                    last.transport.proxy_url,
                                                    last.transport.env)]
  /\ UNCHANGED <<index, documents, document_metadata, disk, workers, buttons>>

SpecTransport == InitTransport /\ [][Post]_vars

(****************** ConfigManager: the recent files list ******************)
\* "if len(self.config["recent_files"]) > 10"
RecentLimit == 10
\* the calls of add_recent_file followed from one loaded configuration
MaxCalls == 3
\* file paths a user may open: one more than the list holds
RecentPaths ==
  {"r01", "r02", "r03", "r04", "r05", "r06", "r07", "r08", "r09", "r10", "r11"}
\* the recent_files of a loaded configuration: [], which is the default, a
\* list with room for one more entry, and a full list
LoadedLists ==
  {SubSeq(<<"r01", "r02", "r03", "r04", "r05", "r06", "r07", "r08", "r09", "r10">>,
          1, n) : n \in {0, RecentLimit - 1, RecentLimit}}

\* list.remove(x): the first occurrence of x is taken out
RECURSIVE Remove(_, _)
Remove(seq, x) ==
  IF seq = <<>> THEN <<>>
  ELSE IF Head(seq) = x THEN Tail(seq) ELSE <<Head(seq)>> \o Remove(Tail(seq), x)

\* a slip of add_recent_file: an entry already in the list is not taken out
add_recent_file_keeping_old(recent_files, file_path) ==
  LET inserted == <<file_path>> \o recent_files
  IN  IF Len(inserted) > RecentLimit THEN SubSeq(inserted, 1, RecentLimit) ELSE inserted

\* the recent_files that add_recent_file(file_path) leaves
add_recent_file(recent_files, file_path) ==
  LET removed  == IF \E i \in DOMAIN recent_files : recent_files[i] = file_path
                    THEN Remove(recent_files, file_path) ELSE recent_files
      inserted == <<file_path>> \o removed
  IN  IF Len(inserted) > RecentLimit THEN SubSeq(inserted, 1, RecentLimit) ELSE inserted

\* ConfigManager(): the configuration as load_config returns it; loaded is
\* the list read, added the paths given to add_recent_file since
InitConfig ==
  /\ index = None
  /\ documents = <<>>
  /\ document_metadata = <<>>
  /\ disk = [blob |-> NoFile, sidecar |-> NoFile]
  /\ workers = [w \in 1..MaxWorkers |-> Idle]
  /\ buttons = {}
  /\ last \in {[NoLast EXCEPT !.op = "load_config",
                               !.config = [loaded |-> l, added |-> <<>>,
                                           recent_files |-> l]] :
                 l \in LoadedLists}

\* add_recent_file updates the list and returns what save_config returns
AddRecentFile ==
  /\ last.op \in {"load_config", "add_recent_file"}
  /\ Len(last.config.added) < MaxCalls
  /\ \E file_path \in RecentPaths, saved \in BOOLEAN :
       last' = [last EXCEPT !.op = "add_recent_file", !.ok = saved,
                            !.config.added = Append(@, file_path),
                            !.config.recent_files = add_recent_file(@, file_path)]
  /\ UNCHANGED <<index, documents, document_metadata, disk, workers, buttons>>

SpecConfig == InitConfig /\ [][AddRecentFile]_vars

(***************************************************************************)
(* The jobs of the frontend: every job is a WorkerThread whose run() calls  *)
(* the function, emits one signal to the main thread, and whose slot hides  *)
(* the progress bar the starting handler showed.  What the functions do to  *)
(* the RAGBuilder is the subject of SpecFrontend; here a function only      *)
(* returns or raises.  buttons holds, besides the enabled buttons, the flag *)
(* progress_bar (the bar is visible) and the flag current_citations (the    *)
(* attribute is a non-empty list).                                          *)
(***************************************************************************)
\* the buttons update_index_status enables or disables
StatusButtons == {"save", "clear", "validate"}

\* a slip of WorkerThread.run: error.emit sits in a finally clause
run_emitting_in_finally(outcome) ==
  IF outcome = "returns" THEN <<"finished", "error">> ELSE <<"error">>

\* WorkerThread.run: the signals it emits when self.func returns or raises
WorkerThread_run(outcome) ==
  IF outcome = "returns" THEN <<"finished">> ELSE <<"error">>

\* the slot a job's signal is connected to
Slot(func, signal) ==
  IF signal = "error" THEN "on_worker_error"
  ELSE CASE func = "add_document"              -> "on_add_document_finished"
         [] func = "add_documents_from_folder" -> "on_add_documents_finished"
         [] func = "identify_citations"        -> "on_identify_citations_finished"
         [] OTHER                              -> "on_validate_citations_finished"

\* the frontend once constructed: with no index, or with the index of
\* last_index_path restored by auto_load_index
InitJobs ==
  /\ last = NoLast
  /\ workers = [w \in 1..MaxWorkers |-> Idle]
  /\ \/ /\ index = None
        /\ documents = <<>>
        /\ document_metadata = <<>>
        /\ disk = [blob |-> NoFile, sidecar |-> NoFile]
        /\ buttons = {}
     \/ /\ index = [present |-> TRUE, d |-> 1,
                    vecs |-> [i \in 1..Len(FileChunks["dir/b.PDF"]) |->
                                Embed(FileChunks["dir/b.PDF"][i], 1)]]
        /\ documents = FileChunks["dir/b.PDF"]
        /\ document_metadata = [i \in 1..Len(FileChunks["dir/b.PDF"]) |->
                                  ChunkMeta("dir/b.PDF", EmptyDict)]
        /\ disk = [blob |-> write_index(index),
                   sidecar |-> json_dump(documents, document_metadata)]
        /\ buttons = StatusButtons

\* "self.worker = WorkerThread(...) ... self.progress_bar.setVisible(True)
\* ... self.worker.start()"
StartJob(func, arg) ==
  /\ start(func, arg)
  /\ buttons' = buttons \cup {"progress_bar"}
  /\ UNCHANGED <<index, documents, document_metadata, disk, last>>

AddFileJob == StartJob("add_document", "dir/b.PDF")

AddFolderJob == StartJob("add_documents_from_folder", "dir")

IdentifyJob == StartJob("identify_citations", "text")

\* validate_citations: current_citations must be non-empty and
\* is_index_loaded() true
ValidateJob ==
  /\ "validate" \in buttons
  /\ "current_citations" \in buttons
  /\ index.present /\ Len(documents) > 0
  /\ StartJob("validate_with_rag", "citations")

\* run() of worker w: the function returns or raises, the signals are
\* queued for the main thread
RunJob(w) ==
  /\ workers[w].pc = "running"
  /\ \E outcome \in {"returns", "raises"} :
       workers' = [workers EXCEPT
                     ![w] = [@ EXCEPT !.pc = "returned"]
                              @@ [emitted |-> WorkerThread_run(outcome)]]
  /\ UNCHANGED <<index, documents, document_metadata, disk, last, buttons>>

\* the main thread runs the slot of the oldest queued signal of worker w:
\* every slot starts with self.progress_bar.setVisible(False); the two
\* add slots call update_index_status, the identify slot stores the
\* citations found (none or some), the validate slot stores them back
Deliver(w) ==
  /\ workers[w].pc = "returned"
  /\ workers[w].emitted # <<>>
  /\ LET slot == Slot(workers[w].func, Head(workers[w].emitted)) IN
     /\ last' = [NoLast EXCEPT !.op = slot]
     /\ \E found \in BOOLEAN :
          buttons' =
            CASE slot \in {"on_add_document_finished", "on_add_documents_finished"}
                   -> ((buttons \ {"progress_bar"}) \ StatusButtons)
                        \cup update_index_status(index)
              [] slot = "on_identify_citations_finished"
                   -> IF found THEN (buttons \ {"progress_bar"}) \cup {"current_citations"}
                               ELSE buttons \ {"progress_bar", "current_citations"}
              [] OTHER -> buttons \ {"progress_bar"}
  /\ workers' = [workers EXCEPT
                   ![w] = IF Len(@.emitted) = 1 THEN Idle
                          ELSE [@ EXCEPT !.emitted = Tail(@)]]
  /\ UNCHANGED <<index, documents, document_metadata, disk>>

RunJobs == \E w \in 1..MaxWorkers : RunJob(w)
DeliverSignals == \E w \in 1..MaxWorkers : Deliver(w)

NextJobs ==
  \/ AddFileJob
  \/ AddFolderJob
  \/ IdentifyJob
  \/ ValidateJob
  \/ RunJobs
  \/ DeliverSignals

\* a started thread runs until its function returns or raises, and the
\* event loop of the main thread delivers every queued signal
SpecJobs ==
  /\ InitJobs
  /\ [][NextJobs]_vars
  /\ \A w \in 1..MaxWorkers : WF_vars(RunJob(w)) /\ WF_vars(Deliver(w))

(***************************************************************************)
(* The claims                                                              *)
(***************************************************************************)
\* the three in-memory structures
mem == <<index, documents, document_metadata>>

\* C1: in every reachable state len(documents) = len(document_metadata) =
\* the number of vectors in the index (0 when there is no index)
C1_Alignment ==
  /\ Len(documents) = Len(document_metadata)
  /\ Len(documents) = ntotal(index)

\* C2: a step of add_document that raises leaves the index, documents and
\* document_metadata as they were, also when there was no index before
C2_AddDocumentAtomic ==
  [][(last'.op = "add_document" /\ last'.raised) => UNCHANGED mem]_vars

\* C2 happens: add_document raised on a dimension mismatch against an
\* index that holds chunks
C2_Witness ==
  /\ last.op = "add_document" /\ last.raised /\ last.error = "dimension"
  /\ index.present /\ Len(documents) > 0

\* the files of the folder the filter selects, in walk order
RECURSIVE Matching(_, _)
Matching(i, file_extensions) ==
  IF i > Len(FolderFiles) THEN <<>>
  ELSE (IF MatchesFilter(FolderFiles[i], file_extensions)
          THEN <<FolderFiles[i]>> ELSE <<>>) \o Matching(i + 1, file_extensions)

\* C3: add_documents_from_folder never raises and returns one record per
\* matching file, in walk order, each a success record with chunk_count or
\* an error record with the error text
C3_FolderReport ==
  last.op = "add_documents_from_folder" =>
    /\ ~last.raised
    /\ [i \in DOMAIN last.results |-> last.results[i].file_path]
         = Matching(1, last.extensions)
    /\ \A i \in DOMAIN last.results :
         \/ /\ last.results[i].status = "success"
            /\ DOMAIN last.results[i]
                 = {"file_path", "chunk_count", "total_chunks", "status"}
            /\ last.results[i].chunk_count = Len(FileChunks[last.results[i].file_path])
         \/ /\ last.results[i].status = "error"
            /\ DOMAIN last.results[i] = {"file_path", "status", "error"}
            /\ last.results[i].error # ""

\* C3 happens: the walk went on after a file failed in the embedding
\* service and committed a later file
C3_Witness ==
  /\ last.op = "add_documents_from_folder"
  /\ \E i, j \in DOMAIN last.results :
       /\ i < j
       /\ last.results[i].status = "error" /\ last.results[i].error = "embedding"
       /\ last.results[j].status = "success"

\* C4: a load_index or save_index that returns False leaves the index,
\* documents and document_metadata as they were
C4_FailedPersistenceKeepsState ==
  [][((last'.op = "load_index" \/ last'.op = "save_index") /\ ~last'.ok)
       => UNCHANGED mem]_vars

\* C5: load_index returns failure when the blob's vector count differs from
\* the sidecar's number of documents or of metadata entries
C5_LoadDetectsMismatch ==
  (/\ last.op = "load_index"
   /\ disk.blob.kind = "ok" /\ disk.sidecar.kind = "ok"
   /\ \/ disk.blob.ntotal # Len(disk.sidecar.documents)
      \/ disk.blob.ntotal # Len(disk.sidecar.metadata))
    => ~last.ok

Min(a, b) == IF a <= b THEN a ELSE b

\* what load_index reads back from a pair of readable artifacts
Restored(d) ==
  <<read_index(d.blob), d.sidecar.documents,
    [i \in 1..Len(d.sidecar.metadata) |-> JsonDict(d.sidecar.metadata[i])]>>

\* C6: a successful save_index writes artifacts from which load_index reads
\* back the same vectors, ordered documents and ordered metadata (hence the
\* same status); a successful load_index installs exactly what the
\* artifacts hold, whatever the instance held before; and a load_index
\* right after a successful save_index succeeds and yields the saved state
C6_RoundTrip ==
  [][/\ (last'.op = "save_index" /\ last'.ok) =>
          /\ Restored(disk') = mem
          /\ get_index_status_of(Restored(disk')[1], Restored(disk')[2],
                                 Restored(disk')[3])
               = get_index_status_of(index, documents, document_metadata)
     /\ (last'.op = "load_index" /\ last'.ok) => mem' = Restored(disk)
     /\ (last.op = "save_index" /\ last.ok /\ last'.op = "load_index") =>
          (last'.ok /\ mem' = mem)]_vars

\* C6 happens: a successful load_index replaced a different in-memory state
\* by two chunks with two-dimensional vectors
C6_Witness ==
  /\ last.op = "load_index" /\ last.ok
  /\ index.d = 2 /\ ntotal(index) = 2 /\ Len(documents) = 2
  /\ mem = Restored(disk)

\* C7: on an index holding n >= 1 chunks a search that returns gives exactly
\* min(k, n) results, one per distinct valid position in [0, n)
C7_SearchClamped ==
  (/\ last.op = "search" /\ ~last.raised
   /\ C1_Alignment /\ Len(documents) >= 1)
    => /\ Len(last.results) = Min(last.k, Len(documents))
       /\ \A i \in DOMAIN last.labels : last.labels[i] \in 0..(Len(documents) - 1)
       /\ \A i, j \in DOMAIN last.labels : i # j => last.labels[i] # last.labels[j]

\* C8: a search that returns gives its results in ascending order of score,
\* and they are the min(k, n) chunks nearest to the query vector, each with
\* its squared Euclidean distance as score
C8_SearchNearestAscending ==
  (/\ last.op = "search" /\ ~last.raised
   /\ C1_Alignment /\ Len(documents) >= 1)
    => LET qv == Embed(last.query, index.d)
           m  == Min(last.k, ntotal(index))
       IN  /\ \A i \in 1..(Len(last.results) - 1) :
                last.results[i].score <= last.results[i + 1].score
           /\ Len(last.results) = m
           /\ \A i \in 1..m :
                /\ last.labels[i] \in 0..(ntotal(index) - 1)
                /\ last.results[i].score = SqDist(index.vecs[last.labels[i] + 1], qv)
                /\ last.results[i].document = documents[last.labels[i] + 1]
           /\ \A j \in 1..ntotal(index) :
                (\A i \in 1..m : last.labels[i] # j - 1)
                  => SqDist(index.vecs[j], qv) >= last.results[m].score

\* C9: search with no index object or with zero documents returns an empty
\* list, does not raise and sends no embedding request
C9_SearchOnEmpty ==
  (last.op = "search" /\ (~index.present \/ Len(documents) = 0))
    => (~last.raised /\ last.results = <<>> /\ last.reqs = 0)

\* C9 happens: search was called on an index object with vectors but no
\* documents
C9_Witness ==
  /\ last.op = "search" /\ index.present /\ ntotal(index) > 0
  /\ Len(documents) = 0 /\ last.results = <<>>

\* C10: save_index in a state with zero vectors or zero documents returns
\* failure and writes neither artifact
C10_SaveFailsOnEmpty ==
  [][(last'.op = "save_index" /\ (ntotal(index) = 0 \/ Len(documents) = 0))
       => (~last'.ok /\ UNCHANGED disk)]_vars

\* what get_index_status reports on an instance without an index
Uninitialized ==
  [status |-> "uninitialized", document_count |-> 0, file_count |-> 0, dimension |-> 0]

\* C11: clear_index leaves a state in which get_index_status reports
\* uninitialized with document_count, file_count and dimension 0, and a
\* clear_index right after a clear_index changes nothing
C11_ClearIdempotent ==
  [][/\ last'.op = "clear_index" =>
          /\ get_index_status_of(index', documents', document_metadata') = Uninitialized
          /\ last.op = "clear_index" => UNCHANGED <<mem, disk>>
     /\ (last.op = "clear_index" /\ last'.op = "get_index_status")
          => last'.status = Uninitialized]_vars

\* C11 happens: clear_index ran on an instance whose two-chunk index had
\* been saved
C11_Witness ==
  /\ last.op = "clear_index" /\ ~index.present
  /\ disk.blob.kind = "ok" /\ disk.blob.ntotal = 2
  /\ disk.sidecar.kind = "ok" /\ Len(disk.sidecar.documents) = 2

\* the calls that install another index object
Replacing == {"clear_index", "load_index", "build_index"}

\* the dimension get_index_status reports
Dimension(ix) == get_index_status_of(ix, <<>>, <<>>).dimension

\* C12 as stated: once there is an index, until the next clear_index, the
\* reported dimension never changes and an add_document whose embeddings
\* have another dimensionality raises and adds nothing
C12_DimensionFixedUntilClear ==
  [][/\ (index.present /\ last'.op # "clear_index")
          => (index'.present /\ Dimension(index') = Dimension(index))
     /\ (last'.op = "add_document" /\ index.present
           /\ last'.dim # 0 /\ last'.dim # index.d)
          => (last'.raised /\ UNCHANGED mem)]_vars

\* C12 amended: once there is an index, until the next clear_index,
\* load_index or build_index, the reported dimension never changes, every
\* vector of the index has that dimensionality, and an add_document whose
\* embeddings have another dimensionality raises and adds nothing
C12_DimensionFixedUntilReplaced ==
  [][/\ (index.present /\ last'.op \notin Replacing)
          => (index'.present /\ Dimension(index') = Dimension(index))
     /\ \A i \in DOMAIN index'.vecs : Len(index'.vecs[i]) = index'.d
     /\ (last'.op = "add_document" /\ index.present
           /\ last'.dim # 0 /\ last'.dim # index.d)
          => (last'.raised /\ UNCHANGED mem)]_vars

\* C12 happens: add_document got two-dimensional embeddings for an index of
\* one-dimensional vectors that holds chunks
C12_Witness ==
  /\ last.op = "add_document" /\ last.dim = 2 /\ last.raised
  /\ index.present /\ index.d = 1 /\ ntotal(index) > 0 /\ Len(documents) > 0

\* C13: what get_index_status returns is uninitialized exactly when there
\* are no vectors and no documents and initialized exactly when there is at
\* least one vector and one document, and is_index_loaded returns true
\* exactly when the status is initialized
C13_TwoStableStates ==
  LET now == get_index_status_of(index, documents, document_metadata).status IN
  /\ last.op = "get_index_status" =>
       /\ last.status.status = "uninitialized"
            <=> (ntotal(index) = 0 /\ Len(documents) = 0)
       /\ last.status.status = "initialized"
            <=> (ntotal(index) >= 1 /\ Len(documents) >= 1)
  /\ last.op = "is_index_loaded" => (last.ok <=> now = "initialized")

\* C14: an add_document that returns has added as many vectors as the file
\* has chunks, get_embeddings never handing back an array with another
\* number of rows than it was given texts
C14_OneVectorPerText ==
  [][(last'.op = "add_document" /\ ~last'.raised)
       => /\ ntotal(index') - ntotal(index) = last'.chunk_count
          /\ last'.chunk_count = Len(FileChunks[last'.file_path])]_vars

\* the files a folder walk sends to the embedding service: the matching
\* files whose text could be extracted
Embedded(file_extensions) ==
  SelectSeq(Matching(1, file_extensions),
            LAMBDA f : ~extract_text_from_file(f).raised)

\* C15: add_document sends exactly one request, holding all the chunks of
\* the file, once the text is extracted and none before; a folder walk
\* sends one such request per file it embeds; search sends exactly one
\* request with one input when there is an index with documents; and a
\* failed request is followed by the error, never by another request
C15_OneRequestPerCall ==
  /\ last.reqs = Len(last.sent)
  /\ last.op = "add_document" =>
       last.sent = IF extract_text_from_file(last.file_path).raised
                     THEN <<>> ELSE <<Len(FileChunks[last.file_path])>>
  /\ last.op = "add_documents_from_folder" =>
       last.sent = [i \in DOMAIN Embedded(last.extensions) |->
                      Len(FileChunks[Embedded(last.extensions)[i]])]
  /\ last.op = "search" =>
       last.sent = IF ~index.present \/ Len(documents) = 0 THEN <<>> ELSE <<1>>
  /\ last.error = "embedding" => (last.raised /\ Len(last.sent) = 1)

\* C15 happens: the one request of an add_document of a two-chunk file
\* failed and the call raised
C15_Witness ==
  /\ last.op = "add_document" /\ last.raised /\ last.error = "embedding"
  /\ last.sent = <<2>>

\* C16: no two WorkerThreads run on the builder at once, and the main
\* thread calls clear_index, load_index or save_index on the builder only
\* while no WorkerThread is running on it
C16_MutualExclusion ==
  [][/\ Cardinality(InFlight') <= 1
     /\ (workers' = workers /\ last' # last
           /\ last'.op \in {"clear_index", "load_index", "save_index"})
          => InFlight = {}]_vars

\* the sentences split_text packs: spaCy's, or the regex pieces when spaCy
\* found none
Detected(text) ==
  IF NonBlank(text.sents) # <<>> THEN NonBlank(text.sents) ELSE NonBlank(text.pieces)

\* the sentences longer than chunk_size
Oversized(s) == SentLen[s] > last.chunk_size

\* C17: the chunks of split_text, one after the other, hold the detected
\* sentences whole, each once and in their original order
C17_SentencesKept ==
  last.op = "split_text" => Flatten(last.chunks) = Detected(last.text)

\* C17 happens: three sentences were packed into two chunks
C17_Witness ==
  /\ last.op = "split_text"
  /\ Len(last.text.sents) = 3 /\ Len(last.chunks) = 2

\* C18: no chunk split_text returns is empty
C18_NoEmptyChunk ==
  last.op = "split_text" =>
    \A i \in DOMAIN last.chunks : last.chunks[i] # <<>> /\ ChunkLen(last.chunks[i]) > 0

\* C18 happens: the first sentence was longer than chunk_size, so the loop
\* closed a chunk while the accumulator was still empty
C18_Witness ==
  /\ last.op = "split_text"
  /\ last.text.sents # <<>> /\ Oversized(last.text.sents[1])
  /\ Len(last.text.sents) > 1 /\ Len(last.chunks) > 1

\* C19: a chunk of two or more sentences is at most chunk_size long, and
\* every chunk but the last was closed because the next sentence and one
\* space did not fit
C19_GreedyPacking ==
  last.op = "split_text" =>
    /\ \A i \in DOMAIN last.chunks :
         Len(last.chunks[i]) >= 2 => ChunkLen(last.chunks[i]) <= last.chunk_size
    /\ \A i \in 1..(Len(last.chunks) - 1) :
         ChunkLen(last.chunks[i]) + 1 + SentLen[last.chunks[i + 1][1]] > last.chunk_size

\* C19 happens: a chunk was closed that the next sentence missed by one
\* character, after a chunk of two sentences
C19_Witness ==
  /\ last.op = "split_text"
  /\ \E i \in 1..(Len(last.chunks) - 1) :
       ChunkLen(last.chunks[i]) + 1 + SentLen[last.chunks[i + 1][1]]
         = last.chunk_size + 1
  /\ \E i \in DOMAIN last.chunks : Len(last.chunks[i]) = 2

\* C20: every sentence longer than chunk_size is a chunk of its own: no
\* chunk holds such a sentence together with another, and there are as many
\* such chunks as such sentences
C20_OversizedAlone ==
  last.op = "split_text" =>
    /\ \A i \in DOMAIN last.chunks :
         (\E j \in DOMAIN last.chunks[i] : Oversized(last.chunks[i][j]))
           => Len(last.chunks[i]) = 1
    /\ Cardinality({i \in DOMAIN Detected(last.text) :
                      Oversized(Detected(last.text)[i])})
         = Cardinality({i \in DOMAIN last.chunks :
                          Len(last.chunks[i]) = 1 /\ Oversized(last.chunks[i][1])})

\* C20 happens: a sentence longer than chunk_size stood between two that
\* fit, and the three came out as three chunks
C20_Witness ==
  /\ last.op = "split_text"
  /\ Len(last.text.sents) = 3 /\ Len(last.chunks) = 3
  /\ ~Oversized(last.text.sents[1])
  /\ Oversized(last.text.sents[2])
  /\ ~Oversized(last.text.sents[3])
  /\ last.chunks[2] = <<last.text.sents[2]>>

\* an empty or white-space-only text: neither segmentation holds a sentence
\* that does not strip to nothing
EmptyInput(text) == NonBlank(text.sents) = <<>> /\ NonBlank(text.pieces) = <<>>

\* C21: split_text on an empty or white-space-only text returns the empty
\* list, the sentence loop and the regex fallback both adding nothing
C21_EmptyInputNoChunks ==
  (last.op = "split_text" /\ EmptyInput(last.text)) => last.chunks = <<>>

\* C21 happens: split_text ran on a text of which spaCy gave two blank
\* sentences and the regex split one blank piece
C21_Witness ==
  /\ last.op = "split_text" /\ EmptyInput(last.text)
  /\ Len(last.text.sents) = 2 /\ Len(last.text.pieces) = 1

\* chunks is the greedy packing of seq: the sentences in order, no empty
\* chunk, a chunk of several sentences within chunk_size, and every chunk
\* but the last closed because the next sentence did not fit
GreedyPacking(chunks, seq, chunk_size) ==
  /\ Flatten(chunks) = seq
  /\ \A i \in DOMAIN chunks :
       /\ chunks[i] # <<>>
       /\ Len(chunks[i]) >= 2 => ChunkLen(chunks[i]) <= chunk_size
  /\ \A i \in 1..(Len(chunks) - 1) :
       ChunkLen(chunks[i]) + 1 + SentLen[chunks[i + 1][1]] > chunk_size

\* C22: split_text returns the greedy packing of the regex pieces exactly
\* when spaCy gave no sentence, and the greedy packing of spaCy's sentences
\* otherwise
C22_FallbackPolicy ==
  last.op = "split_text" =>
    IF NonBlank(last.text.sents) = <<>>
      THEN GreedyPacking(last.chunks, NonBlank(last.text.pieces), last.chunk_size)
      ELSE GreedyPacking(last.chunks, NonBlank(last.text.sents), last.chunk_size)

\* C22 happens: spaCy gave no sentence and the three pieces of the regex
\* split were packed into two chunks
C22_Witness ==
  /\ last.op = "split_text"
  /\ NonBlank(last.text.sents) = <<>>
  /\ Len(NonBlank(last.text.pieces)) = 3 /\ Len(last.chunks) = 2

\* C23: a folder walk gives a file the filter does not select no record
\* and no embedding request and stores nothing for it, and gives a selected
\* file whose text cannot be extracted a record with status error
C23_SkippedSilently ==
  [][last'.op = "add_documents_from_folder" =>
       /\ \A n \in DOMAIN FolderFiles :
            LET f == FolderFiles[n] IN
            IF ~MatchesFilter(f, last'.extensions)
              THEN \A j \in DOMAIN last'.results : last'.results[j].file_path # f
              ELSE extract_text_from_file(f).raised =>
                     \E j \in DOMAIN last'.results :
                       /\ last'.results[j].file_path = f
                       /\ last'.results[j].status = "error"
       /\ Len(last'.sent) = Len(Embedded(last'.extensions))
       /\ Len(document_metadata') >= Len(document_metadata)
       /\ \A i \in DOMAIN document_metadata' :
            IF i <= Len(document_metadata)
              THEN document_metadata'[i] = document_metadata[i]
              ELSE MatchesFilter(StatusPath(document_metadata'[i]), last'.extensions)
       /\ (index' # index \/ documents' # documents) =>
            \E j \in DOMAIN last'.results : last'.results[j].status = "success"]_vars

\* C23 happens: a walk with the default extensions skipped c.md, reported
\* the unreadable d.docx with status error and ingested another file
C23_Witness ==
  /\ last.op = "add_documents_from_folder" /\ last.extensions = DefaultExtensions
  /\ \A j \in DOMAIN last.results : last.results[j].file_path # "dir/c.md"
  /\ \E j \in DOMAIN last.results :
       last.results[j].file_path = "dir/d.docx" /\ last.results[j].status = "error"
  /\ \E j \in DOMAIN last.results : last.results[j].status = "success"
  /\ Len(documents) > 0

\* the extensions extract_text_from_file has an extractor for
Supported == {".pdf", ".docx", ".txt"}

\* C24: add_document of a file whose extension is, in any letter case, one
\* of .pdf, .docx and .txt does not fail as unsupported; of any other file
\* it raises the unsupported-format error with no embedding request sent
\* and the index, documents, metadata and artifacts as they were
C24_UnsupportedFormat ==
  [][last'.op = "add_document" =>
       IF Lower(FileTable[last'.file_path].ext) \in Supported
         THEN last'.error # "unsupported"
         ELSE /\ last'.raised /\ last'.error = "unsupported"
              /\ last'.sent = <<>> /\ last'.reqs = 0
              /\ UNCHANGED <<mem, disk>>]_vars

\* C24 happens: add_document of c.md raised on an instance that holds
\* chunks, one of them from the upper-case b.PDF
C24_Witness ==
  /\ last.op = "add_document" /\ last.file_path = "dir/c.md"
  /\ last.raised /\ last.error = "unsupported"
  /\ \E i \in DOMAIN document_metadata :
       StatusPath(document_metadata[i]) = "dir/b.PDF"

\* what get_index_status would return in the current state
StatusNow == get_index_status_of(index, documents, document_metadata)

\* C25: every add_document that returns appends the chunks of the file, so
\* that document_count grows by their number, also when the metadata
\* already names the file, and then file_count stays as it was
C25_NoDeduplication ==
  [][(last'.op = "add_document" /\ ~last'.raised) =>
       /\ documents' = documents \o FileChunks[last'.file_path]
       /\ StatusNow'.document_count
            = Len(documents) + Len(FileChunks[last'.file_path])
       /\ (\E i \in DOMAIN document_metadata :
             StatusPath(document_metadata[i]) = last'.file_path)
            => /\ index.present
               /\ StatusNow'.document_count
                    = StatusNow.document_count + Len(FileChunks[last'.file_path])
               /\ StatusNow'.file_count = StatusNow.file_count]_vars

\* C25 happens: b.PDF was ingested a second time and its chunk is stored
\* twice, the metadata naming one file
C25_Witness ==
  /\ last.op = "add_document" /\ ~last.raised /\ last.file_path = "dir/b.PDF"
  /\ documents = FileChunks["dir/b.PDF"] \o FileChunks["dir/b.PDF"]
  /\ StatusNow.document_count = 2 /\ StatusNow.file_count = 1

\* C26: an add_document that returns reports as chunk_count the number of
\* chunks and of vectors this call appended, and as total_chunks the length
\* of documents after the call, which is the length before plus chunk_count
C26_ReturnedCounts ==
  [][(last'.op = "add_document" /\ ~last'.raised) =>
       /\ last'.chunk_count = Len(documents') - Len(documents)
       /\ last'.chunk_count = Len(document_metadata') - Len(document_metadata)
       /\ last'.chunk_count = ntotal(index') - ntotal(index)
       /\ last'.total_chunks = Len(documents')
       /\ last'.total_chunks = Len(documents) + last'.chunk_count]_vars

\* C27: a search that returns, for a query that is the text of a stored
\* chunk and k >= 1, gives as first result a chunk of that text at distance
\* 0, no result being nearer
C27_ExactMatchFirst ==
  (/\ last.op = "search" /\ ~last.raised /\ last.k >= 1
   /\ \E i \in DOMAIN documents : documents[i] = last.query)
    => /\ last.results # <<>>
       /\ last.results[1].document = last.query
       /\ last.results[1].score = 0
       /\ \A j \in DOMAIN last.results : last.results[1].score <= last.results[j].score

\* C28: validate_with_rag marks a citation validated only when its search
\* returned a list that is not empty and whose scores are below the
\* threshold; whatever the threshold, the distance of an unfilled slot is
\* not below it
C28_ValidatedBelowThreshold ==
  (last.op = "validate_with_rag" /\ last.validated)
    => /\ last.results # <<>>
       /\ \A i \in DOMAIN last.results : last.results[i].score < FLT_MAX

\* a proxy is configured: use_proxy is true and proxy_url is not empty
ProxyConfigured(t) == t.use_proxy /\ t.proxy_url \notin {NoUrl, ""}

\* C29: with no proxy configured the request of get_embeddings goes out
\* directly, as it would in every other environment, and a request that
\* goes through a proxy was sent with a proxy configured
C29_EnvironmentIndependent ==
  last.op = "post" =>
    LET t == last.transport IN
    /\ ~ProxyConfigured(t) =>
         /\ t.route = "direct"
         /\ \A e \in Envs : Route(t.use_proxy, t.proxy_url, e) = t.route
    /\ t.route # "direct" => ProxyConfigured(t)

\* C29 happens: the request went out directly with use_proxy set, an empty
\* proxy_url and the environment naming a proxy for https
C29_Witness ==
  /\ last.op = "post"
  /\ last.transport.use_proxy /\ last.transport.proxy_url = ""
  /\ last.transport.env.https_proxy # "" /\ ~last.transport.env.no_proxy
  /\ last.transport.route = "direct"

\* a is the beginning of b
IsPrefix(a, b) == Len(a) <= Len(b) /\ SubSeq(b, 1, Len(a)) = a

\* C30: every call but load_index and build_index, which install what they
\* read or embed, either leaves the stored documents, metadata entries and
\* vectors where they are, new ones coming after them, or removes them
\* all; the first is what add_document and add_documents_from_folder do and
\* the second is clear_index
C30_AppendOnly ==
  [][/\ last'.op \notin Replacing =>
          /\ IsPrefix(documents, documents')
          /\ IsPrefix(document_metadata, document_metadata')
          /\ IsPrefix(index.vecs, index'.vecs)
     /\ last'.op \notin {"add_document", "add_documents_from_folder"} \cup Replacing
          => UNCHANGED mem
     /\ last'.op = "clear_index" =>
          (documents' = <<>> /\ document_metadata' = <<>> /\ index'.vecs = <<>>)]_vars

\* C30 happens: an add_document appended one chunk after the chunk an
\* earlier call had stored
C30_Witness ==
  /\ last.op = "add_document" /\ ~last.raised /\ last.chunk_count = 1
  /\ Len(documents) = 2 /\ ntotal(index) = 2
  /\ documents[1] # documents[2] /\ index.vecs[1] # index.vecs[2]
  /\ document_metadata[1] # document_metadata[2]

\* the calls that only read the in-memory state
ReadOnly == {"search", "get_index_status", "is_index_loaded", "save_index"}

\* C31: search, get_index_status, is_index_loaded and save_index, whether
\* they succeed or fail, leave the index, documents and document_metadata
\* as they were, and get_index_status returns the status of the state it
\* is called in
C31_ReadOnly ==
  [][/\ last'.op \in ReadOnly => UNCHANGED mem
     /\ last'.op = "get_index_status" =>
          last'.status = get_index_status_of(index, documents, document_metadata)]_vars

\* C31 happens: get_index_status reported the two chunks of one file that
\* an add_document had stored since the instance was constructed
C31_Witness ==
  /\ last.op = "get_index_status"
  /\ last.status.status = "initialized"
  /\ last.status.document_count = 2 /\ last.status.file_count = 1
  /\ Len(documents) = 2

\* C32: every result of a search that returns carries the text and the
\* metadata stored at one position p at which the index holds a vector and
\* which index.search returned as a label, with the distance of that vector
\* from the query as score
C32_PositionalJoin ==
  (last.op = "search" /\ ~last.raised) =>
    \A i \in DOMAIN last.results :
      \E p \in 0..(ntotal(index) - 1) :
        /\ \E j \in DOMAIN last.labels : last.labels[j] = p
        /\ p < Len(documents) /\ p < Len(document_metadata)
        /\ last.results[i].document = documents[p + 1]
        /\ last.results[i].metadata = document_metadata[p + 1]
        /\ last.results[i].score
             = SqDist(index.vecs[p + 1], Embed(last.query, index.d))

RECURSIVE Committed(_)
\* the chunks of the files a folder walk reports with status success, in
\* report order
Committed(results) ==
  IF results = <<>> THEN <<>>
  ELSE (IF Head(results).status = "success"
          THEN FileChunks[Head(results).file_path] ELSE <<>>) \o Committed(Tail(results))

RECURSIVE SumChunkCount(_)
\* the sum of chunk_count over the records with status success
SumChunkCount(results) ==
  IF results = <<>> THEN 0
  ELSE (IF Head(results).status = "success" THEN Head(results).chunk_count ELSE 0)
         + SumChunkCount(Tail(results))

C34_SnapshotConsistent ==
  (disk.blob.kind = "ok" /\ disk.sidecar.kind = "ok")
    => /\ disk.blob.ntotal = Len(disk.sidecar.documents)
       /\ disk.blob.ntotal = Len(disk.sidecar.metadata)

\* C35: every metadata entry a returning add_document(file_path, metadata)
\* appends has file_path equal to the argument and file_name equal to its
\* basename, whatever mapping the caller passed
C35_WellKnownKeys ==
  [][(last'.op = "add_document" /\ ~last'.raised) =>
       \A i \in (Len(document_metadata) + 1)..Len(document_metadata') :
         /\ document_metadata'[i]["file_path"] = last'.file_path
         /\ document_metadata'[i]["file_name"] = FileTable[last'.file_path].base]_vars

\* when path p was last used, counting the entries of the loaded list from
\* its last to its first and then the paths added; 0 for a path never used
LastUse(p) ==
  LET loaded == last.config.loaded
      added  == last.config.added
      calls  == {i \in DOMAIN added : added[i] = p}
  IN  IF calls # {}
        THEN Len(loaded) + (CHOOSE i \in calls : \A j \in calls : j <= i)
        ELSE IF \E i \in DOMAIN loaded : loaded[i] = p
               THEN Len(loaded) + 1 - (CHOOSE i \in DOMAIN loaded : loaded[i] = p)
               ELSE 0

\* C36: after add_recent_file calls on a duplicate-free list of at most 10
\* entries, recent_files has no duplicate and at most 10 entries, starts
\* with the path added last, and lists the most recently used paths from
\* the most recent to the least recent
C36_RecentFiles ==
  (last.op = "add_recent_file") =>
    LET recent_files == last.config.recent_files
        used         == {p \in RecentPaths : LastUse(p) > 0}
    IN  /\ \A i, j \in DOMAIN recent_files : i # j => recent_files[i] # recent_files[j]
        /\ Len(recent_files) <= RecentLimit
        /\ recent_files[1] = last.config.added[Len(last.config.added)]
        /\ \A i \in DOMAIN recent_files : recent_files[i] \in used
        /\ \A i, j \in DOMAIN recent_files :
             i < j => LastUse(recent_files[i]) > LastUse(recent_files[j])
        /\ Len(recent_files) = Min(RecentLimit, Cardinality(used))
        /\ \A p \in used :
             (\A i \in DOMAIN recent_files : recent_files[i] # p)
               => \A i \in DOMAIN recent_files : LastUse(p) < LastUse(recent_files[i])

\* C36 happens: on a full list a new path pushed the oldest entry out, and
\* then an entry of the list was added again and moved to the front
C36_Witness ==
  /\ last.op = "add_recent_file"
  /\ Len(last.config.loaded) = RecentLimit
  /\ Len(last.config.added) = 2
  /\ \A i \in DOMAIN last.config.loaded : last.config.loaded[i] # last.config.added[1]
  /\ last.config.added[2] = last.config.loaded[5]
  /\ Len(last.config.recent_files) = RecentLimit
  /\ last.config.recent_files[2] = last.config.added[1]
  /\ \A i \in DOMAIN last.config.recent_files :
       last.config.recent_files[i] # last.config.loaded[RecentLimit]

\* C37: a WorkerThread whose function returned or raised has emitted
\* exactly one signal, finished or error; the slot that handles it leaves
\* the progress bar hidden; and every job started is followed by its slot
\* having run with the progress bar hidden
C37_OneSignalThenHidden ==
  /\ [](\A w \in 1..MaxWorkers :
          workers[w].pc = "returned" =>
            /\ Len(workers[w].emitted) = 1
            /\ workers[w].emitted[1] \in {"finished", "error"})
  /\ [][\A w \in 1..MaxWorkers :
          (workers[w].pc = "returned" /\ workers'[w] # workers[w])
            => "progress_bar" \notin buttons']_vars
  /\ \A w \in 1..MaxWorkers :
       (workers[w].pc = "running")
         ~> (workers[w] = Idle /\ "progress_bar" \notin buttons)

\* C37 happens: with the bar hidden and current_citations set by an identify
\* job, the error slot has just run for one job while another, a validate
\* job, is still to deliver its finished signal
C37_Witness ==
  /\ last.op = "on_worker_error"
  /\ "progress_bar" \notin buttons
  /\ "current_citations" \in buttons
  /\ \E w \in 1..MaxWorkers :
       /\ workers[w].pc = "returned"
       /\ workers[w].func = "validate_with_rag"
       /\ workers[w].emitted = <<"finished">>

====
